---- MODULE Spec2Model ----
(***************************************************************************)
(* A model of the icon and archive scripts of go-rewrite (src/scripts).    *)
(* The scripts share no state, so the module holds four specifications     *)
(* over one set of variables:                                              *)
(*   SpecContrast  the per-pixel passes of enhance_icon_contrast.py and    *)
(*                 super_enhance_icons.py                                  *)
(*   SpecThicken   thicken_image of thicken_icons.py                       *)
(*   SpecVerify    verify_zip of verify_zip.py                             *)
(*   SpecIcons     the target loops of the five icon scripts               *)
(* Each specification leaves the other scripts' variables at their idle    *)
(* values.                                                                 *)
(***************************************************************************)
EXTENDS Integers, Sequences, FiniteSets, TLC

VARIABLES
    \* -- contrast enhancers: the pixel under the loop cursor
    orig,        \* the pixel as it was when the image was first loaded
    before,      \* the pixel before the most recent pass
    px,          \* the pixel now: <<r, g, b, a>>
    log,         \* the passes applied so far, oldest first
    \* -- thickener
    img,         \* the image on disk: cell -> <<r, g, b, a>>
    rgbPlane,    \* thickened_rgb: cell -> <<r, g, b>>
    aPlane,      \* thickened_a: cell -> alpha
    aPrev,       \* thickened_a before the most recent MaxFilter pass
    iterations,  \* the iterations argument
    rgbPasses,   \* MinFilter passes done
    aPasses,     \* MaxFilter passes done
    tpc,         \* position in thicken_image
    \* -- archive verifier
    zin,         \* the file at zip_path
    zpc,         \* position in verify_zip
    zout,        \* the lines printed so far
    zexc,        \* the exception in flight ("none" when there is none)
    zopened,     \* whether zipfile.ZipFile was entered
    \* -- icon scripts' target loops
    script,      \* which script runs
    env,         \* the file system the script meets
    spc,         \* position in the script
    idx,         \* index of the next target
    attempted,   \* targets whose processing was started
    written,     \* the files saved so far: sequence of [name, w, h]
    msgs,        \* the lines printed so far
    dirMade,     \* whether os.makedirs ran
    failures     \* the targets at which an exception was raised, in order (0: before the loop)

contrastVars == <<orig, before, px, log>>
thickenVars == <<img, rgbPlane, aPlane, aPrev, iterations, rgbPasses, aPasses, tpc>>
verifyVars == <<zin, zpc, zout, zexc, zopened>>
iconVars == <<script, env, spc, idx, attempted, written, msgs, dirMade, failures>>
vars == <<contrastVars, thickenVars, verifyVars, iconVars>>

Last(s) == s[Len(s)]

(***************************************************************************)
(* Idle values of each script's variables.                                 *)
(***************************************************************************)
ContrastIdle ==
    /\ orig = <<0, 0, 0, 0>> /\ before = <<0, 0, 0, 0>>
    /\ px = <<0, 0, 0, 0>> /\ log = <<>>

ThickenIdle ==
    /\ img = <<>> /\ rgbPlane = <<>> /\ aPlane = <<>> /\ aPrev = <<>>
    /\ iterations = 0 /\ rgbPasses = 0 /\ aPasses = 0 /\ tpc = "idle"

VerifyIdle ==
    /\ zin = [kind |-> "idle"] /\ zpc = "idle" /\ zout = <<>>
    /\ zexc = "none" /\ zopened = FALSE

IconsIdle ==
    /\ script = "idle" /\ env = [kind |-> "idle"] /\ spc = "idle" /\ idx = 0
    /\ attempted = {} /\ written = <<>> /\ msgs = <<>>
    /\ dirMade = FALSE /\ failures = <<>>

(***************************************************************************)
(* Contrast enhancers.                                                     *)
(*                                                                         *)
(* Both pixel loops read pixels[x, y] and write the same coordinate; no    *)
(* iteration reads another coordinate.  The image is therefore carried by  *)
(* the pixel under the cursor.  The stock filters that run before each     *)
(* loop (Contrast, Sharpness, UnsharpMask, autocontrast) produce some RGBA *)
(* image; Init draws the pixel the loop meets from a sample around every   *)
(* threshold of the two loops.                                             *)
(***************************************************************************)
Margin == 1
MaxRuns == 2

BlackThreshold == 150
WhiteThreshold == 200
DarkThreshold == 180
DarkenNum == 6
DarkenDen == 10

Thresholds == {BlackThreshold, WhiteThreshold, DarkThreshold}

ChannelSamples ==
    {0, 1, 2, 255} \cup
    {v \in 0..255 : \E t \in Thresholds : v >= t - Margin /\ v <= t + Margin}

AlphaSamples == {0, 128, 255}

PixelSamples == ChannelSamples \X ChannelSamples \X ChannelSamples \X AlphaSamples

Black == <<0, 0, 0, 255>>
White == <<255, 255, 255, 255>>

AllBelow(p, t) == p[1] < t /\ p[2] < t /\ p[3] < t
AllAbove(p, t) == p[1] > t /\ p[2] > t /\ p[3] > t

\* int(c * 0.6): Python truncates the product; for c in 0..255 it equals c*6 \div 10.
Darken(c) == (c * DarkenNum) \div DarkenDen

\* A slip that writes the snapped colour but keeps the pixel's own alpha.
ThresholdPixelKeepAlpha(p) ==
    IF p[4] > 0
    THEN IF AllBelow(p, BlackThreshold) THEN <<0, 0, 0, p[4]>>
         ELSE IF AllAbove(p, WhiteThreshold) THEN <<255, 255, 255, p[4]>>
         ELSE p
    ELSE p

\* A slip that darkens dark pixels as the other variant does instead of snapping.
ThresholdPixelDarken(p) ==
    IF p[4] > 0
    THEN IF AllBelow(p, BlackThreshold)
         THEN <<Darken(p[1]), Darken(p[2]), Darken(p[3]), 255>>
         ELSE IF AllAbove(p, WhiteThreshold) THEN White
         ELSE p
    ELSE p

\* enhance_contrast, the body of the pixel loop.
ThresholdPixel(p) ==
    IF p[4] > 0
    THEN IF AllBelow(p, BlackThreshold) THEN Black
         ELSE IF AllAbove(p, WhiteThreshold) THEN White
         ELSE p
    ELSE p

\* A slip that darkens each channel on its own test.
DarkenPixelPerChannel(p) ==
    << IF p[1] < DarkThreshold THEN Darken(p[1]) ELSE p[1],
       IF p[2] < DarkThreshold THEN Darken(p[2]) ELSE p[2],
       IF p[3] < DarkThreshold THEN Darken(p[3]) ELSE p[3],
       p[4] >>

\* super_enhance_lines, the body of the pixel loop and the merge with the
\* alpha band split off before it.
DarkenPixel(p) ==
    IF AllBelow(p, DarkThreshold)
    THEN <<Darken(p[1]), Darken(p[2]), Darken(p[3]), p[4]>>
    ELSE p

InitContrast ==
    /\ px \in PixelSamples
    /\ orig = px
    /\ before = px
    /\ log = <<>>
    /\ ThickenIdle /\ VerifyIdle /\ IconsIdle

EnhanceContrastPass ==
    /\ Len(log) < MaxRuns
    /\ before' = px
    /\ px' = ThresholdPixel(px)
    /\ log' = Append(log, "enhance")
    /\ UNCHANGED <<orig, thickenVars, verifyVars, iconVars>>

SuperEnhancePass ==
    /\ Len(log) < MaxRuns
    /\ before' = px
    /\ px' = DarkenPixel(px)
    /\ log' = Append(log, "super")
    /\ UNCHANGED <<orig, thickenVars, verifyVars, iconVars>>

NextContrast == EnhanceContrastPass \/ SuperEnhancePass

SpecContrast == InitContrast /\ [][NextContrast]_vars

LastPass == IF log = <<>> THEN "none" ELSE Last(log)

\* C1 as stated: the threshold pass snaps every pixel with all of R, G, B below
\* 150 to opaque black and every pixel with all of R, G, B above 200 to opaque
\* white, whatever the pixel's alpha.
C1_SnapWhateverAlpha ==
    LastPass = "enhance" =>
        /\ AllBelow(before, BlackThreshold) => px = Black
        /\ AllAbove(before, WhiteThreshold) => px = White

\* C1 amended: the threshold pass snaps every pixel with alpha > 0 whose R, G, B
\* are all below 150 to opaque black and all above 200 to opaque white; a pixel
\* with alpha 0 is left as it is.
C1_SnapVisible ==
    LastPass = "enhance" =>
        /\ before[4] > 0 /\ AllBelow(before, BlackThreshold) => px = Black
        /\ before[4] > 0 /\ AllAbove(before, WhiteThreshold) => px = White
        /\ before[4] = 0 => px = before

C1_Witness ==
    /\ LastPass = "enhance"
    /\ before[4] = 128
    /\ AllBelow(before, BlackThreshold)
    /\ before[1] = BlackThreshold - 1
    /\ px = Black

C3_ThresholdIdempotent ==
    /\ (LastPass = "enhance" /\ before \in {Black, White}) => px = before
    /\ (Len(log) >= 2 /\ log[Len(log) - 1] = "enhance" /\ LastPass = "enhance")
           => px = before

C3_Witness ==
    /\ log = <<"enhance", "enhance">>
    /\ orig # px
    /\ px = before

(***************************************************************************)
(* Thickener.                                                              *)
(*                                                                         *)
(* The image is a GridW x GridH bitmap.  Init draws it as a background     *)
(* pixel with at most MaxInk cells that differ from it.                    *)
(***************************************************************************)
GridW == 3
GridH == 2
MaxInk == 2
MaxIterations == 2

KernelSize == 3

Cells == (1..GridW) \X (1..GridH)

ThickenSamples == { <<255, 255, 255, 0>>, <<200, 100, 0, 128>>, <<0, 0, 0, 255>> }

Images ==
    { [c \in Cells |-> IF c \in S THEN ink ELSE bg] :
        bg \in ThickenSamples, ink \in ThickenSamples,
        S \in {T \in SUBSET Cells : Cardinality(T) <= MaxInk} }
    \cup
    { [c \in Cells |-> IF c = c1 THEN p1 ELSE IF c = c2 THEN p2 ELSE bg] :
        bg \in ThickenSamples, p1 \in ThickenSamples, p2 \in ThickenSamples,
        c1 \in Cells, c2 \in Cells }

Abs(n) == IF n < 0 THEN -n ELSE n

SetMax(S) == CHOOSE m \in S : \A n \in S : n <= m
SetMin(S) == CHOOSE m \in S : \A n \in S : m <= n

\* The cells under a KernelSize x KernelSize window centred on c.  The library
\* pads the image by repeating its edge pixels, which adds no value to a
\* window that its in-image cells do not already hold.
Window(c) ==
    { d \in Cells : Abs(d[1] - c[1]) <= KernelSize \div 2
                    /\ Abs(d[2] - c[2]) <= KernelSize \div 2 }

\* ImageFilter.MinFilter(3) on one band.
MinFilterPlane(p) == [c \in Cells |-> SetMin({p[d] : d \in Window(c)})]

\* A slip that erodes the alpha band as the colour bands are eroded.
MaxFilterPlaneEroding(p) == [c \in Cells |-> SetMin({p[d] : d \in Window(c)})]

\* ImageFilter.MaxFilter(3) on the alpha band.
MaxFilterPlane(p) == [c \in Cells |-> SetMax({p[d] : d \in Window(c)})]

Band(p, k) == [c \in Cells |-> p[c][k]]

\* ImageFilter.MinFilter(3) on the RGB image: each band on its own.
MinFilterRGB(p) ==
    LET r == MinFilterPlane(Band(p, 1))
        g == MinFilterPlane(Band(p, 2))
        b == MinFilterPlane(Band(p, 3))
    IN  [c \in Cells |-> <<r[c], g[c], b[c]>>]

\* The number of passes each of the two loops of thicken_image makes.
RgbPassCount(n) == n
AlphaPassCount(n) == n

InitThicken ==
    /\ img \in Images
    /\ iterations \in 1..MaxIterations
    /\ rgbPlane = <<>> /\ aPlane = <<>> /\ aPrev = <<>>
    /\ rgbPasses = 0 /\ aPasses = 0
    /\ tpc = "open"
    /\ ContrastIdle /\ VerifyIdle /\ IconsIdle

\* Image.open(...).convert, split, merge to RGB.
ThickenSplit ==
    /\ tpc = "open"
    /\ rgbPlane' = [c \in Cells |-> <<img[c][1], img[c][2], img[c][3]>>]
    /\ aPlane' = Band(img, 4)
    /\ aPrev' = Band(img, 4)
    /\ tpc' = "min"
    /\ UNCHANGED <<img, iterations, rgbPasses, aPasses,
                   contrastVars, verifyVars, iconVars>>

\* Image.open raises: the except clause prints and the file is left as it was.
ThickenOpenFails ==
    /\ tpc = "open"
    /\ tpc' = "failed"
    /\ UNCHANGED <<img, rgbPlane, aPlane, aPrev, iterations, rgbPasses, aPasses,
                   contrastVars, verifyVars, iconVars>>

\* One iteration of the MinFilter loop.
ThickenMinPass ==
    /\ tpc = "min"
    /\ rgbPasses < RgbPassCount(iterations)
    /\ rgbPlane' = MinFilterRGB(rgbPlane)
    /\ rgbPasses' = rgbPasses + 1
    /\ tpc' = IF rgbPasses + 1 < RgbPassCount(iterations) THEN "min" ELSE "max"
    /\ UNCHANGED <<img, aPlane, aPrev, iterations, aPasses,
                   contrastVars, verifyVars, iconVars>>

\* One iteration of the MaxFilter loop.
ThickenMaxPass ==
    /\ tpc = "max"
    /\ aPasses < AlphaPassCount(iterations)
    /\ aPrev' = aPlane
    /\ aPlane' = MaxFilterPlane(aPlane)
    /\ aPasses' = aPasses + 1
    /\ tpc' = IF aPasses + 1 < AlphaPassCount(iterations) THEN "max" ELSE "merge"
    /\ UNCHANGED <<img, rgbPlane, iterations, rgbPasses,
                   contrastVars, verifyVars, iconVars>>

\* Image.merge and save over the source file.
ThickenSave ==
    /\ tpc = "merge"
    /\ img' = [c \in Cells |->
                  <<rgbPlane[c][1], rgbPlane[c][2], rgbPlane[c][3], aPlane[c]>>]
    /\ tpc' = "saved"
    /\ UNCHANGED <<rgbPlane, aPlane, aPrev, iterations, rgbPasses, aPasses,
                   contrastVars, verifyVars, iconVars>>

NextThicken ==
    \/ ThickenSplit
    \/ ThickenOpenFails
    \/ ThickenMinPass
    \/ ThickenMaxPass
    \/ ThickenSave

SpecThicken == InitThicken /\ [][NextThicken]_vars

\* C4: no MaxFilter pass lowers a pixel's alpha, so the non-transparent pixels
\* after a pass include those before it and the merged image's include the
\* source image's; and both loops make the same number of passes.
C4_AlphaExpands ==
    /\ aPasses >= 1 =>
          /\ \A c \in Cells : aPlane[c] >= aPrev[c]
          /\ {c \in Cells : aPrev[c] > 0} \subseteq {c \in Cells : aPlane[c] > 0}
    /\ tpc = "merge" =>
          {c \in Cells : img[c][4] > 0} \subseteq {c \in Cells : aPlane[c] > 0}
    /\ tpc \in {"merge", "saved"} =>
          (rgbPasses = iterations /\ aPasses = iterations)

C4_Witness ==
    /\ tpc = "max"
    /\ iterations = 2
    /\ aPasses = 1
    /\ \E c \in Cells : aPrev[c] = 0 /\ aPlane[c] = 255
    /\ \E c \in Cells : aPrev[c] = 128 /\ aPlane[c] = 255
    /\ \E c \in Cells : aPlane[c] = 0

(***************************************************************************)
(* Archive verifier.                                                       *)
(*                                                                         *)
(* Text is a sequence of one-character strings.  The text of main.js is    *)
(* drawn as a concatenation of at most MaxSegs segments.                   *)
(***************************************************************************)
MaxSegs == 3

Digits == {"0", "1", "2", "3", "4", "5", "6", "7", "8", "9"}

Segments ==
    { <<"v", "1", ".", "2", ".", "3">>,
      <<"v", "1", ".", "1", "0", ".", "0">>,
      <<"v", "2", ".", "0">>,
      <<"x">>,
      <<"4">> }

RECURSIVE TextsOf(_)
TextsOf(n) ==
    IF n = 0 THEN { <<>> }
    ELSE LET shorter == TextsOf(n - 1)
         IN  shorter \cup { t \o g : t \in shorter, g \in Segments }

Texts == TextsOf(MaxSegs)

\* The code point of a character.
Ord(c) ==
    CASE c = "." -> 46
      [] c = "0" -> 48 [] c = "1" -> 49 [] c = "2" -> 50 [] c = "3" -> 51
      [] c = "4" -> 52 [] c = "5" -> 53 [] c = "6" -> 54 [] c = "7" -> 55
      [] c = "8" -> 56 [] c = "9" -> 57
      [] c = "v" -> 118
      [] c = "x" -> 120

\* The index after the longest run of digits of s that starts at i.
RECURSIVE DigitsEnd(_, _)
DigitsEnd(s, i) ==
    IF i <= Len(s) /\ s[i] \in Digits THEN DigitsEnd(s, i + 1) ELSE i

IsAt(s, i, c) == i <= Len(s) /\ s[i] = c

\* The index after the match of v\d+\.\d+\.\d+ at i, or 0 when there is none.
\* Each \d+ is greedy and is followed by a non-digit, so no shorter run matches
\* where the longest does not.
MatchEnd(s, i) ==
    IF ~IsAt(s, i, "v") THEN 0
    ELSE LET j1 == DigitsEnd(s, i + 1)
         IN  IF j1 = i + 1 \/ ~IsAt(s, j1, ".") THEN 0
             ELSE LET j2 == DigitsEnd(s, j1 + 1)
                  IN  IF j2 = j1 + 1 \/ ~IsAt(s, j2, ".") THEN 0
                      ELSE LET j3 == DigitsEnd(s, j2 + 1)
                           IN  IF j3 = j2 + 1 THEN 0 ELSE j3

\* re.findall: the non-overlapping matches, leftmost first.
RECURSIVE FindAllFrom(_, _)
FindAllFrom(s, i) ==
    IF i > Len(s) THEN <<>>
    ELSE LET e == MatchEnd(s, i)
         IN  IF e > 0 THEN <<SubSeq(s, i, e - 1)>> \o FindAllFrom(s, e)
             ELSE FindAllFrom(s, i + 1)

FindAll(s) == FindAllFrom(s, 1)

\* Python's order on strings: by code point, a proper prefix first.
RECURSIVE StrLess(_, _)
StrLess(a, b) ==
    IF b = <<>> THEN FALSE
    ELSE IF a = <<>> THEN TRUE
    ELSE IF Ord(Head(a)) # Ord(Head(b)) THEN Ord(Head(a)) < Ord(Head(b))
    ELSE StrLess(Tail(a), Tail(b))

\* sorted(list(S)).
RECURSIVE Sorted(_)
Sorted(S) ==
    IF S = {} THEN <<>>
    ELSE LET m == CHOOSE x \in S : \A y \in S : x = y \/ StrLess(x, y)
         IN  <<m>> \o Sorted(S \ {m})

Range(q) == { q[k] : k \in 1..Len(q) }

\* A slip that reports the matches as found.
UniqueVersionsRaw(matches) == matches

\* unique_versions = sorted(list(set(matches))).
UniqueVersions(matches) == Sorted(Range(matches))

Line(kind, text, list) == [kind |-> kind, text |-> text, list |-> list]

ManifestKeys == {"version", "name"}

\* The value the archive's manifest holds for a key.
ManifestValue(key) == IF key = "version" THEN "9.9.9" ELSE "X"

\* A slip that drops the default of manifest.get.
GetNoDefault(keys, key) == IF key \in keys THEN ManifestValue(key) ELSE "None"

\* manifest.get(key, 'Unknown').
Get(keys, key) == IF key \in keys THEN ManifestValue(key) ELSE "Unknown"

NoArchive(kind) ==
    [kind |-> kind, manifest |-> "absent", keys |-> {}, hasMain |-> FALSE, main |-> <<>>]

Archives ==
    { [kind |-> "zip", manifest |-> m, keys |-> k, hasMain |-> h, main |-> t] :
        m \in {"absent", "object", "malformed", "nonobject", "corrupt"},
        k \in SUBSET ManifestKeys, h \in BOOLEAN, t \in Texts }

Inputs ==
    { NoArchive("missing"), NoArchive("notzip"), NoArchive("unreadable") }
    \cup { a \in Archives : /\ a.manifest # "object" => a.keys = {}
                            /\ ~a.hasMain => a.main = <<>> }

\* A slip that leaves only the BadZipFile clause.
ExceptClauseBadZipOnly(e) == IF e = "BadZipFile" THEN "badzip" ELSE "none"

\* The except clause that takes exception e; each exception the calls of the
\* try block raise is a subclass of Exception.
ExceptClause(e) == IF e = "BadZipFile" THEN "badzip" ELSE "generic"

InitVerify ==
    /\ zin \in Inputs
    /\ zpc = "call"
    /\ zout = <<>>
    /\ zexc = "none"
    /\ zopened = FALSE
    /\ ContrastIdle /\ ThickenIdle /\ IconsIdle

\* os.path.exists and the first print.
VerifyStart ==
    /\ zpc = "call"
    /\ IF zin.kind = "missing"
       THEN /\ zout' = Append(zout, Line("file_not_found", "", <<>>))
            /\ zpc' = "returned"
       ELSE /\ zout' = Append(zout, Line("verifying", "", <<>>))
            /\ zpc' = "open"
    /\ UNCHANGED <<zin, zexc, zopened, contrastVars, thickenVars, iconVars>>

\* zipfile.ZipFile(zip_path, 'r').
OpenArchive ==
    /\ zpc = "open"
    /\ CASE zin.kind = "notzip" ->
               zexc' = "BadZipFile" /\ zpc' = "raised" /\ zopened' = FALSE
         [] zin.kind = "unreadable" ->
               zexc' = "OSError" /\ zpc' = "raised" /\ zopened' = FALSE
         [] OTHER ->
               zexc' = zexc /\ zpc' = "manifest" /\ zopened' = TRUE
    /\ UNCHANGED <<zin, zout, contrastVars, thickenVars, iconVars>>

\* 1. Check manifest.json.
CheckManifest ==
    /\ zpc = "manifest"
    /\ CASE zin.manifest = "absent" ->
               /\ zout' = Append(zout, Line("manifest_not_found", "", <<>>))
               /\ zpc' = "main" /\ zexc' = zexc
         [] zin.manifest = "object" ->
               /\ zout' = zout \o
                     << Line("manifest_version", Get(zin.keys, "version"), <<>>),
                        Line("manifest_name", Get(zin.keys, "name"), <<>>) >>
               /\ zpc' = "main" /\ zexc' = zexc
         [] zin.manifest = "malformed" ->
               zout' = zout /\ zpc' = "raised" /\ zexc' = "JSONDecodeError"
         [] zin.manifest = "nonobject" ->
               zout' = zout /\ zpc' = "raised" /\ zexc' = "AttributeError"
         [] zin.manifest = "corrupt" ->
               zout' = zout /\ zpc' = "raised" /\ zexc' = "BadZipFile"
    /\ UNCHANGED <<zin, zopened, contrastVars, thickenVars, iconVars>>

\* 2. Check main.js for version string.
CheckMainJs ==
    /\ zpc = "main"
    /\ IF zin.hasMain
       THEN LET matches == FindAll(zin.main)
            IN  IF matches # <<>>
                THEN zout' = Append(zout, Line("versions", "", UniqueVersions(matches)))
                ELSE zout' = Append(zout, Line("no_version", "", <<>>))
       ELSE zout' = Append(zout, Line("main_not_found", "", <<>>))
    /\ zpc' = "returned"
    /\ UNCHANGED <<zin, zexc, zopened, contrastVars, thickenVars, iconVars>>

\* The except clauses of the try block.
HandleException ==
    /\ zpc = "raised"
    /\ CASE ExceptClause(zexc) = "badzip" ->
               /\ zout' = Append(zout, Line("invalid_zip", "", <<>>))
               /\ zpc' = "returned"
         [] ExceptClause(zexc) = "generic" ->
               /\ zout' = Append(zout, Line("error", zexc, <<>>))
               /\ zpc' = "returned"
         [] OTHER ->
               zout' = zout /\ zpc' = "escaped"
    /\ UNCHANGED <<zin, zexc, zopened, contrastVars, thickenVars, iconVars>>

NextVerify ==
    \/ VerifyStart
    \/ OpenArchive
    \/ CheckManifest
    \/ CheckMainJs
    \/ HandleException

SpecVerify == InitVerify /\ [][NextVerify]_vars

Finished == zpc \in {"returned", "escaped"}

CountKind(out, K) == Cardinality({ k \in 1..Len(out) : out[k].kind \in K })

ErrorKinds == {"invalid_zip", "error", "file_not_found"}
MainKinds == {"versions", "no_version", "main_not_found"}

\* The manifest outcome the claim names for an archive.
ManifestReport(a) ==
    IF a.manifest = "absent"
    THEN << Line("manifest_not_found", "", <<>>) >>
    ELSE << Line("manifest_version",
                 IF "version" \in a.keys THEN "9.9.9" ELSE "Unknown", <<>>),
            Line("manifest_name",
                 IF "name" \in a.keys THEN "X" ELSE "Unknown", <<>>) >>

OneManifestThenOneMain ==
    LET m == ManifestReport(zin)
    IN  /\ Len(zout) = 1 + Len(m) + 1
        /\ SubSeq(zout, 2, 1 + Len(m)) = m
        /\ Last(zout).kind \in MainKinds
        /\ Last(zout).kind = "main_not_found" <=> ~zin.hasMain
        /\ CountKind(zout, MainKinds) = 1

\* C5 as stated: for every readable zip archive the report is one manifest
\* outcome followed by one main.js outcome, each decided by its own entry.
C5_EveryReadableZip ==
    (Finished /\ zin.kind = "zip" /\ zin.manifest # "corrupt")
        => OneManifestThenOneMain

\* C5 amended: for every readable zip archive whose manifest.json is absent or
\* parses to a JSON object the report is one manifest outcome followed by one
\* main.js outcome, each decided by its own entry; when manifest.json is present
\* and is not a JSON object the manifest step raises, one error line is printed
\* and no main.js outcome is reported.
C5_ManifestThenMain ==
    /\ (Finished /\ zin.kind = "zip" /\ zin.manifest \in {"absent", "object"})
           => OneManifestThenOneMain
    /\ (Finished /\ zin.kind = "zip" /\ zin.manifest \in {"malformed", "nonobject"})
           => /\ Len(zout) = 2
              /\ zout[2].kind = "error"
              /\ CountKind(zout, MainKinds) = 0

C5_Witness ==
    /\ zpc = "returned"
    /\ zin.kind = "zip" /\ zin.manifest = "object" /\ zin.keys = {"version"}
    /\ ~zin.hasMain
    /\ zout = << Line("verifying", "", <<>>),
                 Line("manifest_version", "9.9.9", <<>>),
                 Line("manifest_name", "Unknown", <<>>),
                 Line("main_not_found", "", <<>>) >>

\* A version-like token: v, digits, a dot, digits, a dot, digits.
IsVersionToken(t) ==
    /\ Len(t) >= 6
    /\ t[1] = "v"
    /\ LET dots == { k \in 2..Len(t) : t[k] = "." }
       IN  /\ Cardinality(dots) = 2
           /\ \A k \in (2..Len(t)) \ dots : t[k] \in Digits
           /\ \A k \in dots : k > 2 /\ k < Len(t) /\ (k + 1) \notin dots

OccursIn(t, s) ==
    \E k \in 1..Len(s) : k + Len(t) - 1 <= Len(s) /\ SubSeq(s, k, k + Len(t) - 1) = t

\* The main.js report the claim names: the distinct tokens in ascending order,
\* or the none-found line exactly when nothing matches.
MainReportIsSortedUnique ==
    LET matches == FindAll(zin.main)
        l == Last(zout)
    IN  /\ l.kind = "no_version" <=> matches = <<>>
        /\ matches # <<>> =>
              /\ l.kind = "versions"
              /\ \A k \in 1..(Len(l.list) - 1) : StrLess(l.list[k], l.list[k + 1])
              /\ Range(l.list) = Range(matches)
              /\ \A t \in Range(l.list) : IsVersionToken(t) /\ OccursIn(t, zin.main)

\* C6 as stated: when main.js is present the report lists the distinct tokens
\* matched, sorted ascending, and the none-found line is printed exactly when
\* there is no match.
C6_WheneverMainPresent ==
    (Finished /\ zin.kind = "zip" /\ zin.hasMain) => MainReportIsSortedUnique

\* C6 amended: when main.js is present and the manifest step did not raise
\* (manifest.json is absent or parses to a JSON object), the report lists the
\* distinct tokens matched, sorted ascending, and the none-found line is printed
\* exactly when there is no match.
C6_SortedUniqueVersions ==
    (Finished /\ zin.kind = "zip" /\ zin.hasMain
        /\ zin.manifest \in {"absent", "object"}) => MainReportIsSortedUnique

C6_Witness ==
    /\ zpc = "returned"
    /\ zin.hasMain
    /\ Len(FindAll(zin.main)) = 3
    /\ Last(zout).kind = "versions"
    /\ Last(zout).list = << <<"v", "1", ".", "1", "0", ".", "0">>,
                            <<"v", "1", ".", "2", ".", "3">> >>
    /\ FindAll(zin.main)[1] = <<"v", "1", ".", "2", ".", "3">>

\* C7: no exception leaves verify_zip: every call returns; a file that is not a
\* zip gets the invalid-archive line, any other exception gets one error line,
\* and a missing file gets only the file-not-found line with no archive opened.
C7_NothingEscapes ==
    /\ zpc # "escaped"
    /\ zpc \in {"call", "open", "manifest", "main", "raised", "returned"}
    /\ zpc = "returned" =>
          /\ zin.kind = "missing" =>
                (zout = << Line("file_not_found", "", <<>>) >> /\ ~zopened)
          /\ zin.kind = "notzip" =>
                zout = << Line("verifying", "", <<>>), Line("invalid_zip", "", <<>>) >>
          /\ zexc = "BadZipFile" =>
                (Last(zout).kind = "invalid_zip" /\ CountKind(zout, ErrorKinds) = 1)
          /\ zexc \notin {"none", "BadZipFile"} =>
                (Last(zout).kind = "error" /\ CountKind(zout, ErrorKinds) = 1)
          /\ (zexc = "none" /\ zin.kind # "missing") => CountKind(zout, ErrorKinds) = 0

C7_Witness ==
    /\ zpc = "returned"
    /\ zin.kind = "zip" /\ zin.manifest = "nonobject" /\ zin.hasMain
    /\ zexc = "AttributeError"
    /\ zout = << Line("verifying", "", <<>>), Line("error", "AttributeError", <<>>) >>

(***************************************************************************)
(* The target loops of the five icon scripts.                              *)
(*                                                                         *)
(* An image is carried by its pixel dimensions and by whether the small-   *)
(* size sharpening ran on it.  Every library call of a target's processing *)
(* either returns or raises.                                               *)
(***************************************************************************)
MaxSrcSide == 2

Scale == 8
SharpenMaxSize == 48

IconSizes == {16, 48, 128}

\* SIZES of generate_icons.py.
SIZES == <<128, 48, 16>>

\* targets of the other four scripts (the file scripts name them icon16.png, ...).
TargetSizes == <<16, 48, 128>>

FileScripts == {"enhance_icon_contrast", "super_enhance_icons", "thicken_icons"}
Scripts == {"generate_new_icon", "generate_icons"} \cup FileScripts

Targets(sc) == IF sc = "generate_icons" THEN SIZES ELSE TargetSizes

\* f"icon{size}.png"
IconName(size) == <<"icon", size, ".png">>

SrcSides == (1..MaxSrcSide) \cup {128, 500}

Image(w, h) == [w |-> w, h |-> h, sharp |-> FALSE]

\* A slip that shrinks the image into the box and keeps its aspect ratio, as
\* Image.thumbnail does.
ResizeKeepAspect(im, w, h) ==
    IF im.w >= im.h
    THEN [im EXCEPT !.w = w, !.h = IF (im.h * w) \div im.w < 1 THEN 1
                                   ELSE (im.h * w) \div im.w]
    ELSE [im EXCEPT !.h = h, !.w = IF (im.w * h) \div im.h < 1 THEN 1
                                   ELSE (im.w * h) \div im.h]

\* img.resize((w, h), Image.Resampling.LANCZOS).
Resize(im, w, h) == [im EXCEPT !.w = w, !.h = h]

\* enhancer.enhance(1.2) followed by filter(UnsharpMask(...)): same size.
Sharpen(im) == [im EXCEPT !.sharp = TRUE]

\* create_go_icon: the image saved for a size.
CreateGoIcon(size) == Resize(Image(size * Scale, size * Scale), size, size)

\* generate_icons: the image saved for a size.
ResizedIcon(src, size) ==
    LET resized == Resize(src, size, size)
    IN  IF size <= SharpenMaxSize THEN Sharpen(resized) ELSE resized

File(name, im) == [name |-> name, w |-> im.w, h |-> im.h, sharp |-> im.sharp]

\* The calls of one size's processing in generate_icons that may raise.
ResizerCalls(size) ==
    IF size <= SharpenMaxSize THEN {"resize", "enhance", "filter", "save"}
    ELSE {"resize", "save"}

\* A slip that puts the try inside the loop of generate_icons.
ResizerResumeNext(i) == i + 1

\* Where the loop of generate_icons resumes after an exception at target i: the
\* try encloses the loop, so it does not.
ResizerResume(i) == Len(SIZES) + 1

\* A slip that puts the try around the loop of a file script.
FileResumeNever(i) == Len(TargetSizes) + 1

\* Where the loop of a file script resumes after an exception at target i: the
\* try is inside the function called per file, so at the next one.
FileResume(i) == i + 1

Envs(sc) ==
    IF sc = "generate_new_icon"
    THEN { [srcExists |-> FALSE, src |-> Image(1, 1), present |-> {}] }
    ELSE IF sc = "generate_icons"
    THEN { [srcExists |-> e, src |-> Image(w, h), present |-> {}] :
             e \in BOOLEAN, w \in SrcSides, h \in SrcSides }
    ELSE { [srcExists |-> FALSE, src |-> Image(1, 1), present |-> P] :
             P \in SUBSET (1..Len(TargetSizes)) }

InitIcons ==
    /\ script \in Scripts
    /\ env \in Envs(script)
    /\ spc = IF script \in FileScripts THEN "loop" ELSE "start"
    /\ idx = 1
    /\ attempted = {}
    /\ written = <<>>
    /\ msgs = <<>>
    /\ dirMade = FALSE
    /\ failures = <<>>
    /\ ContrastIdle /\ ThickenIdle /\ VerifyIdle

LoopOrDone(sc, i) == IF i > Len(Targets(sc)) THEN "done" ELSE "loop"

\* generate_new_icon.py __main__: os.makedirs; nothing catches what it raises.
GeneratorStart ==
    /\ script = "generate_new_icon" /\ spc = "start"
    /\ \E ok \in BOOLEAN :
          IF ok
          THEN dirMade' = TRUE /\ spc' = "loop" /\ failures' = failures
          ELSE dirMade' = FALSE /\ spc' = "crashed" /\ failures' = Append(failures, 0)
    /\ UNCHANGED <<script, env, idx, attempted, written, msgs,
                   contrastVars, thickenVars, verifyVars>>

\* generate_new_icon.py __main__: one iteration, create_go_icon(s, path).
GeneratorTarget ==
    /\ script = "generate_new_icon" /\ spc = "loop"
    /\ attempted' = attempted \cup {idx}
    /\ \E ok \in BOOLEAN :
          IF ok
          THEN /\ written' = Append(written,
                      File(IconName(TargetSizes[idx]), CreateGoIcon(TargetSizes[idx])))
               /\ msgs' = Append(msgs, "generated")
               /\ idx' = idx + 1
               /\ spc' = LoopOrDone(script, idx + 1)
               /\ failures' = failures
          ELSE /\ failures' = Append(failures, idx)
               /\ spc' = "crashed"
               /\ UNCHANGED <<written, msgs, idx>>
    /\ UNCHANGED <<script, env, dirMade, contrastVars, thickenVars, verifyVars>>

\* generate_icons: the source check, Image.open and os.makedirs.
ResizerStart ==
    /\ script = "generate_icons" /\ spc = "start"
    /\ IF ~env.srcExists
       THEN /\ msgs' = Append(msgs, "source_not_found")
            /\ spc' = "done"
            /\ UNCHANGED <<dirMade, failures>>
       ELSE \E raised \in {"none", "open", "makedirs"} :
               IF raised = "none"
               THEN /\ msgs' = Append(msgs, "loaded")
                    /\ dirMade' = TRUE
                    /\ spc' = "loop"
                    /\ failures' = failures
               ELSE /\ msgs' = (IF raised = "open" THEN msgs ELSE Append(msgs, "loaded"))
                               \o <<"error">>
                    /\ dirMade' = FALSE
                    /\ spc' = "done"
                    /\ failures' = Append(failures, 0)
    /\ UNCHANGED <<script, env, idx, attempted, written,
                   contrastVars, thickenVars, verifyVars>>

\* generate_icons: one iteration of the loop over SIZES, and the except clause
\* when a call of it raises.
ResizerTarget ==
    /\ script = "generate_icons" /\ spc = "loop"
    /\ attempted' = attempted \cup {idx}
    /\ \E raised \in {"none"} \cup ResizerCalls(SIZES[idx]) :
          IF raised = "none"
          THEN /\ written' = Append(written,
                      File(IconName(SIZES[idx]), ResizedIcon(env.src, SIZES[idx])))
               /\ msgs' = Append(msgs, "generated")
               /\ idx' = idx + 1
               /\ spc' = LoopOrDone(script, idx + 1)
               /\ failures' = failures
          ELSE /\ failures' = Append(failures, idx)
               /\ msgs' = Append(msgs, "error")
               /\ idx' = ResizerResume(idx)
               /\ spc' = LoopOrDone(script, ResizerResume(idx))
               /\ written' = written
    /\ UNCHANGED <<script, env, dirMade, contrastVars, thickenVars, verifyVars>>

\* The __main__ loop of enhance_icon_contrast.py, super_enhance_icons.py and
\* thicken_icons.py: one file, with the try/except of the function it calls.
FileTarget ==
    /\ script \in FileScripts /\ spc = "loop"
    /\ IF idx \in env.present
       THEN /\ attempted' = attempted \cup {idx}
            /\ \E ok \in BOOLEAN :
                  IF ok
                  THEN /\ written' = Append(written,
                              File(IconName(TargetSizes[idx]),
                                   Image(TargetSizes[idx], TargetSizes[idx])))
                       /\ msgs' = Append(msgs, "processed")
                       /\ idx' = idx + 1
                       /\ spc' = LoopOrDone(script, idx + 1)
                       /\ failures' = failures
                  ELSE /\ failures' = Append(failures, idx)
                       /\ msgs' = Append(msgs, "failed")
                       /\ idx' = FileResume(idx)
                       /\ spc' = LoopOrDone(script, FileResume(idx))
                       /\ written' = written
       ELSE /\ msgs' = IF script = "super_enhance_icons" THEN msgs
                       ELSE Append(msgs, "not_found")
            /\ idx' = idx + 1
            /\ spc' = LoopOrDone(script, idx + 1)
            /\ UNCHANGED <<attempted, written, failures>>
    /\ UNCHANGED <<script, env, dirMade, contrastVars, thickenVars, verifyVars>>

NextIcons ==
    \/ GeneratorStart
    \/ GeneratorTarget
    \/ ResizerStart
    \/ ResizerTarget
    \/ FileTarget

SpecIcons == InitIcons /\ [][NextIcons]_vars

CountMsg(m) == Cardinality({ k \in 1..Len(msgs) : msgs[k] = m })

\* The targets a script has to process: every one, or for a file script the
\* files that exist.
Due == IF script \in FileScripts THEN env.present ELSE 1..Len(Targets(script))

TargetFailures == { k \in 1..Len(failures) : failures[k] >= 1 }

\* C8 as stated: in each of the five scripts a failure while processing one
\* target prints a message and the remaining targets are still attempted; no
\* exception terminates the script.
C8_EveryScriptContinues ==
    (script \in Scripts /\ TargetFailures # {}) =>
        /\ spc # "crashed"
        /\ spc = "done" =>
              /\ attempted = Due
              /\ CountMsg("failed") + CountMsg("error") = Len(failures)

\* C8 amended: in the two contrast enhancers and the thickener the catch is
\* inside the function called per file, so a failure on one file prints a
\* message and every remaining file is still attempted; the icon resizer's one
\* catch encloses its whole loop, so a failure prints one message and no later
\* size is attempted; the icon generator has no catch, so a failure ends the
\* script with the exception and no later size is attempted.
C8_CatchPerScript ==
    /\ script \in FileScripts =>
          /\ spc # "crashed"
          /\ CountMsg("failed") = Len(failures)
          /\ spc = "done" => attempted = Due
    /\ script = "generate_icons" =>
          /\ spc # "crashed"
          /\ CountMsg("error") = Len(failures)
          /\ failures # <<>> =>
                (spc = "done" /\ Len(failures) = 1 /\ attempted = 1..failures[1])
    /\ script = "generate_new_icon" =>
          /\ CountMsg("failed") + CountMsg("error") = 0
          /\ failures # <<>> =>
                (spc = "crashed" /\ Len(failures) = 1 /\ attempted = 1..failures[1])

C8_Witness ==
    /\ script = "thicken_icons"
    /\ spc = "done"
    /\ env.present = {1, 2, 3}
    /\ failures = <<1, 2>>
    /\ attempted = {1, 2, 3}
    /\ Len(written) = 1

WrittenAs(size) == { k \in 1..Len(written) : written[k].name = IconName(size) }

\* C9: on a run without failure the icon generator and the icon resizer each
\* write, for every size of 16, 48 and 128, exactly one file icon{S}.png, and it
\* is S x S pixels, whatever the source image's dimensions.
C9_ExactSizes ==
    (/\ script \in {"generate_new_icon", "generate_icons"}
     /\ spc = "done"
     /\ failures = <<>>
     /\ script = "generate_icons" => env.srcExists)
        => /\ Len(written) = Cardinality(IconSizes)
           /\ \A size \in IconSizes :
                 /\ Cardinality(WrittenAs(size)) = 1
                 /\ \A k \in WrittenAs(size) :
                       written[k].w = size /\ written[k].h = size

C9_Witness ==
    /\ script = "generate_icons"
    /\ spc = "done"
    /\ failures = <<>>
    /\ env.src.w = 500 /\ env.src.h = 1
    /\ Len(written) = 3
    /\ written[3] = [name |-> IconName(16), w |-> 16, h |-> 16, sharp |-> TRUE]

====
